---- MODULE Spec2Model ----
(***************************************************************************)
(* A model of ContactListProcessor (src/contact-list-processor.py and the  *)
(* stand-alone scripts beside it).  A file is a sequence of lines; a line  *)
(* is a string that keeps its terminating "\n", as readlines() returns it. *)
(* Every pass is a pure function from a sequence of lines to a sequence of *)
(* lines, modelled as an operator that computes what the Python code       *)
(* computes; main() applies the selected passes in its fixed order.        *)
(***************************************************************************)
EXTENDS Integers, Sequences, FiniteSets, TLC

VARIABLES args, lines, prev, last, pc, written

\* The state of iterateAndDeleteContacts (src/contact-list-delete-iterator.py),
\* which reads `lines` and whose result is `written`: contact is its
\* current_contact, cursor the index of the line its loop reads next, user_input
\* the latest answer (trimmed, in upper case), invalid the number of answers
\* rejected so far, ipc its position ("idle" while the processor runs).
VARIABLES cleaned_lines, contact, contact_count, deleted_count, cursor, user_input,
          invalid, ipc

ivars ==
    <<cleaned_lines, contact, contact_count, deleted_count, cursor, user_input, invalid, ipc>>

vars == <<args, lines, prev, last, pc, written, ivars>>

----------------------------------------------------------------------------
(* Python str primitives.  TLC evaluates Len, \o and SubSeq on strings.    *)

Min(S) == CHOOSE m \in S : \A n \in S : m <= n

Ch(s, i) == SubSeq(s, i, i)

From(s, i) == SubSeq(s, i, Len(s))

Digits == {"0", "1", "2", "3", "4", "5", "6", "7", "8", "9"}

IsDigit(c) == c \in Digits

\* str.strip() with no argument strips whitespace
Whitespace == {" ", "\t", "\n", "\r"}

LowerLetters == "abcdefghijklmnopqrstuvwxyz"

UpperLetters == "ABCDEFGHIJKLMNOPQRSTUVWXYZ"

LowerSet == {Ch(LowerLetters, i) : i \in 1..26}

UpperSet == {Ch(UpperLetters, i) : i \in 1..26}

UpperOf == [c \in LowerSet |-> Ch(UpperLetters, CHOOSE i \in 1..26 : Ch(LowerLetters, i) = c)]

LowerOf == [c \in UpperSet |-> Ch(LowerLetters, CHOOSE i \in 1..26 : Ch(UpperLetters, i) = c)]

\* The character-wise maps split the string in halves, so that the depth of
\* the evaluation grows with the logarithm of the length.
Half(s) == Len(s) \div 2

\* str.upper()
RECURSIVE Upper(_)
Upper(s) ==
    IF Len(s) = 0 THEN ""
    ELSE IF Len(s) = 1 THEN (IF s \in LowerSet THEN UpperOf[s] ELSE s)
    ELSE Upper(SubSeq(s, 1, Half(s))) \o Upper(From(s, Half(s) + 1))

\* str.lower()
RECURSIVE Lower(_)
Lower(s) ==
    IF Len(s) = 0 THEN ""
    ELSE IF Len(s) = 1 THEN (IF s \in UpperSet THEN LowerOf[s] ELSE s)
    ELSE Lower(SubSeq(s, 1, Half(s))) \o Lower(From(s, Half(s) + 1))

\* str.lstrip(set)
LStrip(s, set) ==
    LET keep == {i \in 1..Len(s) : Ch(s, i) \notin set}
    IN  IF keep = {} THEN "" ELSE From(s, Min(keep))

\* str.rstrip(set)
RStrip(s, set) ==
    LET keep == {i \in 1..Len(s) : Ch(s, i) \notin set}
    IN  IF keep = {} THEN "" ELSE SubSeq(s, 1, CHOOSE m \in keep : \A n \in keep : n <= m)

Strip(s) == LStrip(RStrip(s, Whitespace), Whitespace)

StartsWith(s, p) == Len(s) >= Len(p) /\ SubSeq(s, 1, Len(p)) = p

EndsWith(s, p) == Len(s) >= Len(p) /\ SubSeq(s, Len(s) - Len(p) + 1, Len(s)) = p

\* str.find, 1-based; 0 when p does not occur in s
IndexOf(s, p) ==
    LET I == {i \in 1..(Len(s) - Len(p) + 1) : SubSeq(s, i, i + Len(p) - 1) = p}
    IN  IF I = {} THEN 0 ELSE Min(I)

Contains(s, p) == IndexOf(s, p) # 0

\* str.replace(old, new): every non-overlapping occurrence, left to right
RECURSIVE Replace(_, _, _)
Replace(s, old, new) ==
    LET i == IndexOf(s, old)
    IN  IF i = 0 THEN s
        ELSE SubSeq(s, 1, i - 1) \o new \o Replace(From(s, i + Len(old)), old, new)

\* str.split(sep)
RECURSIVE Split(_, _)
Split(s, sep) ==
    LET i == IndexOf(s, sep)
    IN  IF i = 0 THEN <<s>>
        ELSE <<SubSeq(s, 1, i - 1)>> \o Split(From(s, i + Len(sep)), sep)

\* str.split(sep, 1)
SplitOnce(s, sep) ==
    LET i == IndexOf(s, sep)
    IN  IF i = 0 THEN <<s>> ELSE <<SubSeq(s, 1, i - 1), From(s, i + Len(sep))>>

\* sep.join(parts)
RECURSIVE Join(_, _)
Join(parts, sep) ==
    IF parts = <<>> THEN ""
    ELSE IF Len(parts) = 1 THEN parts[1]
    ELSE parts[1] \o sep \o Join(Tail(parts), sep)

\* re.findall(r"\d", s), joined
RECURSIVE DigitsOf(_)
DigitsOf(s) ==
    IF Len(s) = 0 THEN ""
    ELSE IF Len(s) = 1 THEN (IF IsDigit(s) THEN s ELSE "")
    ELSE DigitsOf(SubSeq(s, 1, Half(s))) \o DigitsOf(From(s, Half(s) + 1))

RECURSIVE Flatten(_)
Flatten(groups) ==
    IF groups = <<>> THEN <<>> ELSE Head(groups) \o Flatten(Tail(groups))

IsBegin(line) == Upper(Strip(line)) = "BEGIN:VCARD"

IsEnd(line) == Upper(Strip(line)) = "END:VCARD"

----------------------------------------------------------------------------
(* formatContactNumbers                                                    *)

\* re.match(r"^TEL;TYPE=[^:]+:", stripped, re.IGNORECASE)
MatchesTelType(stripped) ==
    /\ StartsWith(Upper(stripped), "TEL;TYPE=")
    /\ IndexOf(From(stripped, 10), ":") >= 2

\* re.match(r"^TEL;([^:]+):(.+)$", stripped, re.IGNORECASE)
MatchesTelWord(stripped) ==
    /\ StartsWith(Upper(stripped), "TEL;")
    /\ LET k == IndexOf(From(stripped, 5), ":")
       IN  /\ k >= 2
           /\ Len(stripped) >= 5 + k
           /\ ~Contains(From(stripped, 5 + k), "\n")

type_mapping ==
    [w \in {"CELL", "MOBILE", "WORK", "HOME", "VOICE", "FAX", "PAGER", "VIDEO", "TEXT",
            "TEXTPHONE"} |->
        CASE w = "MOBILE" -> "cell"
          [] OTHER -> Lower(w)]

\* dict.get(key, default)
DictGet(d, key, default) == IF key \in DOMAIN d THEN d[key] ELSE default

standardize_tel_format(line) ==
    LET stripped == Strip(line)
    IN  IF MatchesTelType(stripped) THEN line
        ELSE IF MatchesTelWord(stripped)
        THEN LET k == IndexOf(From(stripped, 5), ":")
                 type_value == Strip(SubSeq(stripped, 5, 3 + k))
                 number == Strip(From(stripped, 5 + k))
                 type_lower == Lower(type_value)
                 standardized_type == DictGet(type_mapping, type_lower, type_lower)
             IN  "TEL;TYPE=" \o standardized_type \o ":" \o number \o "\n"
        ELSE IF StartsWith(Upper(stripped), "TEL:")
        THEN "TEL;TYPE=voice:" \o Strip(From(stripped, 5)) \o "\n"
        ELSE line

\* the class [\s\-\.\\\/] that may follow +351
PrefixSeparators == Whitespace \cup {"-", ".", "\\", "/"}

\* re.sub(r"\+351[\s\-\.\\\/]*", "", line)
RECURSIVE StripCountryPrefix(_)
StripCountryPrefix(s) ==
    LET i == IndexOf(s, "+351")
    IN  IF i = 0 THEN s
        ELSE SubSeq(s, 1, i - 1)
                 \o StripCountryPrefix(LStrip(From(s, i + 4), PrefixSeparators))

MinRun == 9

MaxRun == 15

replacer(match) ==
    LET digits == DigitsOf(match)
    IN  IF Len(digits) = 9
        THEN SubSeq(digits, 1, 3) \o " " \o SubSeq(digits, 4, 6) \o " " \o SubSeq(digits, 7, 9)
        ELSE match

\* re.sub(r"(?<!\d)([\d\D]{9,15}?)(?!\d)", replacer, s), scanning s from index i
\* the lengths n of a match ([\d\D]{9,15} not followed by a digit) at index i
RunsAt(s, i) ==
    {n \in MinRun..MaxRun :
        /\ i + n - 1 <= Len(s)
        /\ (i + n > Len(s) \/ ~IsDigit(Ch(s, i + n)))}

RECURSIVE RegroupFrom(_, _)
RegroupFrom(s, i) ==
    LET starts == {j \in i..Len(s) :
                      /\ ~(j > 1 /\ IsDigit(Ch(s, j - 1)))
                      /\ RunsAt(s, j) # {}}
    IN  IF starts = {} THEN From(s, i)
        ELSE LET j == Min(starts)
                 n == Min(RunsAt(s, j))
             IN  SubSeq(s, i, j - 1) \o replacer(SubSeq(s, j, j + n - 1))
                     \o RegroupFrom(s, j + n)

normalize_phone_number(line) ==
    LET stripped351 == StripCountryPrefix(standardize_tel_format(line))
    IN  IF Contains(Upper(stripped351), "TEL") THEN RegroupFrom(stripped351, 1)
        ELSE stripped351

formatContactNumbers(ls) ==
    [i \in 1..Len(ls) |->
        IF StartsWith(Upper(Strip(ls[i])), "TEL") THEN normalize_phone_number(ls[i])
        ELSE ls[i]]

----------------------------------------------------------------------------
(* Code points.  Ascii1 holds the characters 32..95 and Ascii2 the         *)
(* characters 97..126, in code-point order; Latin1 the accented letters    *)
(* the decoder can produce here.  A character outside these tables is      *)
(* outside the model: Ord and Chr are not defined on it.                   *)

Ascii1 == " !\"#$%&'()*+,-./0123456789:;<=>?@ABCDEFGHIJKLMNOPQRSTUVWXYZ[\\]^_"

Ascii2 == "abcdefghijklmnopqrstuvwxyz{|}~"

Latin1 == [cp \in {227, 231, 233} |-> CASE cp = 227 -> "ã" [] cp = 231 -> "ç" [] OTHER -> "é"]

CodePoints ==
    {9, 10, 13} \cup {31 + i : i \in 1..Len(Ascii1)} \cup {96 + i : i \in 1..Len(Ascii2)}
        \cup DOMAIN Latin1

Chr ==
    [cp \in CodePoints |->
        CASE cp = 9 -> "\t"
          [] cp = 10 -> "\n"
          [] cp = 13 -> "\r"
          [] cp \in 32..95 -> Ch(Ascii1, cp - 31)
          [] cp \in 97..126 -> Ch(Ascii2, cp - 96)
          [] OTHER -> Latin1[cp]]

Chars == {Chr[cp] : cp \in CodePoints}

Ord == [c \in Chars |-> CHOOSE cp \in CodePoints : Chr[cp] = c]

\* the order of str: lexicographic by code point
StrLess(a, b) ==
    LET m == IF Len(a) < Len(b) THEN Len(a) ELSE Len(b)
        diff == {i \in 1..m : Ch(a, i) # Ch(b, i)}
    IN  IF diff = {} THEN Len(a) < Len(b)
        ELSE Ord[Ch(a, Min(diff))] < Ord[Ch(b, Min(diff))]

----------------------------------------------------------------------------
(* convertToReadable                                                       *)

HexDigits == "0123456789ABCDEF"

IsHex(c) == Contains(HexDigits, Upper(c))

HexVal(c) == IndexOf(HexDigits, Upper(c)) - 1

\* binascii.a2b_qp (quopri.decodestring) on a value without line breaks:
\* the bytes, as a sequence of 0..255; <<-1>> stands for the ValueError that a
\* non-ASCII character of the str raises
\* the bytes of a run of literal characters
Literal(s) == [i \in 1..Len(s) |-> Ord[Ch(s, i)]]

\* the decoder from one "=" to the next: the literal run before the first
\* "=" is copied, then the escape that starts there is decoded
RECURSIVE QpFrom(_)
QpFrom(s) ==
    LET e == IndexOf(s, "=")
        t == From(s, e)
    IN  IF e = 0 THEN Literal(s)
        ELSE Literal(SubSeq(s, 1, e - 1)) \o
             (IF Len(t) = 1 THEN <<>>
              ELSE IF Ch(t, 2) = "=" THEN <<Ord["="]>> \o QpFrom(From(t, 3))
              ELSE IF Len(t) >= 3 /\ IsHex(Ch(t, 2)) /\ IsHex(Ch(t, 3))
              THEN <<16 * HexVal(Ch(t, 2)) + HexVal(Ch(t, 3))>> \o QpFrom(From(t, 4))
              ELSE <<Ord["="]>> \o QpFrom(From(t, 2)))

a2b_qp(s) ==
    IF \E i \in 1..Len(s) : Ord[Ch(s, i)] > 127 THEN <<-1>> ELSE QpFrom(s)

IsCont(bytes, i) == i <= Len(bytes) /\ bytes[i] \in 128..191

\* bytes.decode("utf-8"): [ok |-> FALSE] is UnicodeDecodeError
\* the text of a run of ASCII bytes
RECURSIVE AsciiText(_)
AsciiText(bytes) ==
    IF Len(bytes) = 0 THEN ""
    ELSE IF Len(bytes) = 1 THEN Chr[bytes[1]]
    ELSE AsciiText(SubSeq(bytes, 1, Len(bytes) \div 2))
             \o AsciiText(SubSeq(bytes, Len(bytes) \div 2 + 1, Len(bytes)))

RECURSIVE Utf8Decode(_)
Utf8Decode(bytes) ==
    IF bytes = <<>> THEN [ok |-> TRUE, text |-> ""]
    ELSE IF bytes[1] \in 0..127
    THEN LET other == {i \in 1..Len(bytes) : bytes[i] \notin 0..127}
             run == IF other = {} THEN Len(bytes) ELSE Min(other) - 1
             rest == Utf8Decode(SubSeq(bytes, run + 1, Len(bytes)))
         IN  IF ~rest.ok THEN [ok |-> FALSE, text |-> ""]
             ELSE [ok |-> TRUE, text |-> AsciiText(SubSeq(bytes, 1, run)) \o rest.text]
    ELSE LET b == bytes[1]
             n == IF b < 0 THEN 0
                  ELSE IF b < 128 THEN 1
                  ELSE IF b \in 194..223 /\ IsCont(bytes, 2) THEN 2
                  ELSE IF /\ b \in 224..239 /\ IsCont(bytes, 2) /\ IsCont(bytes, 3)
                          /\ (b = 224 => bytes[2] >= 160) /\ (b = 237 => bytes[2] <= 159)
                       THEN 3
                  ELSE IF /\ b \in 240..244
                          /\ IsCont(bytes, 2) /\ IsCont(bytes, 3) /\ IsCont(bytes, 4)
                          /\ (b = 240 => bytes[2] >= 144) /\ (b = 244 => bytes[2] <= 143)
                       THEN 4
                  ELSE 0
             cp == CASE n = 1 -> b
                     [] n = 2 -> (b - 192) * 64 + (bytes[2] - 128)
                     [] n = 3 -> (b - 224) * 4096 + (bytes[2] - 128) * 64 + (bytes[3] - 128)
                     [] OTHER -> (b - 240) * 262144 + (bytes[2] - 128) * 4096
                                     + (bytes[3] - 128) * 64 + (bytes[4] - 128)
             rest == Utf8Decode(SubSeq(bytes, n + 1, Len(bytes)))
         IN  IF n = 0 \/ ~rest.ok THEN [ok |-> FALSE, text |-> ""]
             ELSE [ok |-> TRUE, text |-> Chr[cp] \o rest.text]

\* re.sub(r";CHARSET=[^;]+", "", key)
RECURSIVE StripCharset(_)
StripCharset(key) ==
    LET i == IndexOf(key, ";CHARSET=")
        rest == From(key, i + 9)
        j == IndexOf(rest, ";")
        run == IF j = 0 THEN Len(rest) ELSE j - 1
    IN  IF i = 0 THEN key
        ELSE IF run = 0 THEN SubSeq(key, 1, i + 8) \o StripCharset(rest)
        ELSE SubSeq(key, 1, i - 1) \o StripCharset(From(rest, run + 1))

\* lines 148-166: what is appended for the physical line `line` once the
\* logical line `line_stripped` is complete
ReadableLine(line, line_stripped) ==
    IF Contains(line_stripped, "ENCODING=QUOTED-PRINTABLE")
    THEN LET parts == SplitOnce(line_stripped, ":")
         IN  IF Len(parts) = 2
             THEN LET key == Replace(StripCharset(parts[1]), ";ENCODING=QUOTED-PRINTABLE", "")
                      decoded == Utf8Decode(a2b_qp(parts[2]))
                  IN  IF decoded.ok THEN key \o ":" \o decoded.text \o "\n" ELSE line
             ELSE line
    ELSE line

\* the loop of lines 134-166 from line i on, with the loop's buffer and flag
RECURSIVE ReadableFrom(_, _, _, _)
ReadableFrom(ls, i, buffer, processing_buffer) ==
    IF i > Len(ls) THEN <<>>
    ELSE LET line_stripped == RStrip(ls[i], {"\r", "\n"})
         IN  IF EndsWith(line_stripped, "=")
             THEN ReadableFrom(ls, i + 1,
                               buffer \o SubSeq(line_stripped, 1, Len(line_stripped) - 1), TRUE)
             ELSE IF processing_buffer
             THEN <<ReadableLine(ls[i], buffer \o line_stripped)>>
                      \o ReadableFrom(ls, i + 1, "", FALSE)
             ELSE <<ReadableLine(ls[i], line_stripped)>>
                      \o ReadableFrom(ls, i + 1, buffer, processing_buffer)

convertToReadable(ls) == ReadableFrom(ls, 1, "", FALSE)

----------------------------------------------------------------------------
(* removeContactPictures                                                   *)

\* re.match(r"^PHOTO(;.*)?:", stripped, re.IGNORECASE)
MatchesPhoto(stripped) ==
    /\ StartsWith(Upper(stripped), "PHOTO")
    /\ \/ Ch(stripped, 6) = ":"
       \/ /\ Ch(stripped, 6) = ";"
          /\ \E j \in 7..Len(stripped) :
                /\ Ch(stripped, j) = ":"
                /\ ~Contains(SubSeq(stripped, 7, j - 1), "\n")

\* PicturesFrom with skip_photo never reset: the line that ends a photo block
\* is dropped with it
RECURSIVE PicturesFromNoReset(_, _, _)
PicturesFromNoReset(ls, i, skip_photo) ==
    IF i > Len(ls) THEN <<>>
    ELSE IF MatchesPhoto(Strip(ls[i])) THEN PicturesFromNoReset(ls, i + 1, TRUE)
    ELSE IF skip_photo THEN PicturesFromNoReset(ls, i + 1, TRUE)
    ELSE <<ls[i]>> \o PicturesFromNoReset(ls, i + 1, FALSE)

RECURSIVE PicturesFrom(_, _, _)
PicturesFrom(ls, i, skip_photo) ==
    IF i > Len(ls) THEN <<>>
    ELSE IF MatchesPhoto(Strip(ls[i])) THEN PicturesFrom(ls, i + 1, TRUE)
    ELSE IF /\ skip_photo
            /\ (StartsWith(ls[i], " ") \/ StartsWith(ls[i], "\t") \/ Strip(ls[i]) = "")
    THEN PicturesFrom(ls, i + 1, TRUE)
    ELSE <<ls[i]>> \o PicturesFrom(ls, i + 1, FALSE)

removeContactPictures(ls) == PicturesFrom(ls, 1, FALSE)

----------------------------------------------------------------------------
(* removeOptionalFields                                                    *)

mandatory_fields == {"BEGIN:VCARD", "END:VCARD", "VERSION", "FN", "N", "TEL"}

is_mandatory_field(line) ==
    LET stripped == Upper(Strip(line))
    IN  \/ stripped \in {"BEGIN:VCARD", "END:VCARD"}
        \/ \E field \in mandatory_fields : StartsWith(stripped, field)
        \/ StartsWith(stripped, "TEL;TYPE=")

\* the loop of lines 245-256 from line i on
RECURSIVE OptionalFrom(_, _, _)
OptionalFrom(ls, i, current_contact) ==
    IF i > Len(ls) THEN <<>>
    ELSE IF IsBegin(ls[i]) THEN OptionalFrom(ls, i + 1, <<ls[i]>>)
    ELSE IF IsEnd(ls[i])
    THEN Append(current_contact, ls[i]) \o <<"\n">> \o OptionalFrom(ls, i + 1, <<>>)
    ELSE IF is_mandatory_field(ls[i])
    THEN OptionalFrom(ls, i + 1, Append(current_contact, ls[i]))
    ELSE OptionalFrom(ls, i + 1, current_contact)

removeOptionalFields(ls) == OptionalFrom(ls, 1, <<>>)

----------------------------------------------------------------------------
(* Grouping of lines into contacts: the loop that formatContactNames,      *)
(* upgradeVcfVersion, sortContactsByName and iterateAndDeleteContacts      *)
(* share.  The result holds current_contact at each END:VCARD line.        *)

\* GroupFrom with a begin marker appended to the open buffer, not starting a
\* new one
RECURSIVE GroupFromAppending(_, _, _)
GroupFromAppending(ls, i, current_contact) ==
    IF i > Len(ls) THEN <<>>
    ELSE IF IsEnd(ls[i])
    THEN <<Append(current_contact, ls[i])>> \o GroupFromAppending(ls, i + 1, <<>>)
    ELSE GroupFromAppending(ls, i + 1, Append(current_contact, ls[i]))

RECURSIVE GroupFrom(_, _, _)
GroupFrom(ls, i, current_contact) ==
    IF i > Len(ls) THEN <<>>
    ELSE IF IsBegin(ls[i]) THEN GroupFrom(ls, i + 1, <<ls[i]>>)
    ELSE IF IsEnd(ls[i])
    THEN <<Append(current_contact, ls[i])>> \o GroupFrom(ls, i + 1, <<>>)
    ELSE GroupFrom(ls, i + 1, Append(current_contact, ls[i]))

GroupContacts(ls) == GroupFrom(ls, 1, <<>>)

\* Python's None, and a value that is set
None == [some |-> FALSE, val |-> ""]

Some(v) == [some |-> TRUE, val |-> v]

\* the truth value of an Optional[str]
Truthy(x) == x.some /\ x.val # ""

----------------------------------------------------------------------------
(* formatContactNames                                                      *)

\* lines 379-384
fn_combined(n_line) ==
    LET parts == Split(n_line, ";")
        family == Strip(parts[1])
        given == IF Len(parts) > 1 THEN Strip(parts[2]) ELSE ""
        additional == IF Len(parts) > 2 THEN Strip(parts[3]) ELSE ""
    IN  Join(SelectSeq(<<given, additional, family>>, LAMBDA part : part # ""), " ")

\* the loop of lines 365-375 from line i on
RECURSIVE NamesScan(_, _, _, _, _)
NamesScan(contact_lines, i, fn_line, n_line, other_lines) ==
    IF i > Len(contact_lines)
    THEN [fn_line |-> fn_line, n_line |-> n_line, other_lines |-> other_lines]
    ELSE LET line == contact_lines[i]
             stripped == Strip(line)
             up == Upper(stripped)
         IN  IF StartsWith(up, "FN:")
             THEN NamesScan(contact_lines, i + 1,
                            IF ~Truthy(fn_line) THEN Some(stripped) ELSE fn_line,
                            n_line, other_lines)
             ELSE IF StartsWith(up, "N:")
             THEN NamesScan(contact_lines, i + 1, fn_line, Some(From(stripped, 3)),
                            other_lines)
             ELSE IF StartsWith(up, "BEGIN:VCARD") \/ StartsWith(up, "END:VCARD")
             THEN NamesScan(contact_lines, i + 1, fn_line, n_line, other_lines)
             ELSE NamesScan(contact_lines, i + 1, fn_line, n_line, Append(other_lines, line))

formatContactNames_process_contact(contact_lines) ==
    LET scan == NamesScan(contact_lines, 1, None, None, <<>>)
        fn_line == IF ~Truthy(scan.fn_line) /\ Truthy(scan.n_line)
                   THEN Some("FN:" \o fn_combined(scan.n_line.val))
                   ELSE scan.fn_line
    IN  <<"BEGIN:VCARD\n">>
            \o (IF Truthy(fn_line) THEN <<fn_line.val \o "\n">> ELSE <<>>)
            \o scan.other_lines
            \o <<"END:VCARD\n">>

RECURSIVE NamesFlatten(_)
NamesFlatten(contacts) ==
    IF contacts = <<>> THEN <<>>
    ELSE formatContactNames_process_contact(Head(contacts)) \o <<"\n">>
             \o NamesFlatten(Tail(contacts))

formatContactNames(ls) == NamesFlatten(GroupContacts(ls))

----------------------------------------------------------------------------
(* autoSetContactTypes                                                     *)

\* re.match(r"^TEL;TYPE=.*?:", stripped, re.IGNORECASE)
MatchesTypedTel(stripped) ==
    /\ StartsWith(Upper(stripped), "TEL;TYPE=")
    /\ LET k == IndexOf(From(stripped, 10), ":")
       IN  k >= 1 /\ ~Contains(SubSeq(stripped, 10, 8 + k), "\n")

remove_types_from_line(line) ==
    LET parts == SplitOnce(Strip(line), ":")
    IN  IF MatchesTypedTel(Strip(line)) /\ Len(parts) = 2
        THEN "TEL;TYPE=" \o parts[2] \o "\n"
        ELSE line

determine_type(phone_number) ==
    LET cleaned == Replace(Replace(Strip(phone_number), " ", ""), "-", "")
        number == IF StartsWith(cleaned, "+351") THEN From(cleaned, 5)
                  ELSE IF StartsWith(cleaned, "351") THEN From(cleaned, 4)
                  ELSE cleaned
    IN  IF StartsWith(number, "2") THEN "HOME"
        ELSE IF StartsWith(number, "9") THEN "CELL"
        ELSE IF StartsWith(number, "+") THEN "CELL"
        ELSE "VOICE"

\* lines 459-470: the second pass, on one line
set_type_of_line(line) ==
    LET phone_number == Replace(Strip(line), "TEL;TYPE=", "")
    IN  IF StartsWith(Upper(Strip(line)), "TEL;TYPE=") /\ DigitsOf(phone_number) # ""
        THEN "TEL;TYPE=" \o determine_type(phone_number) \o ":" \o phone_number \o "\n"
        ELSE line

autoSetContactTypes(ls) ==
    LET lines_without_types == [i \in 1..Len(ls) |-> remove_types_from_line(ls[i])]
    IN  [i \in 1..Len(ls) |-> set_type_of_line(lines_without_types[i])]

----------------------------------------------------------------------------
(* upgradeVcfVersion                                                       *)

escape_vcard_value(value) ==
    Replace(Replace(Replace(Replace(value, "\\", "\\\\"), ";", "\\;"), ",", "\\,"),
            "\n", "\\n")

\* the class [\w;,\-]
TypeChars ==
    LowerSet \cup UpperSet \cup Digits \cup {"_", ";", ",", "-"}
        \cup {Latin1[cp] : cp \in DOMAIN Latin1}

\* re.split(r"[;,]", raw_type), from index i on, cur being the pending token
RECURSIVE SplitTypes(_, _, _)
SplitTypes(raw_type, i, cur) ==
    IF i > Len(raw_type) THEN <<cur>>
    ELSE IF Ch(raw_type, i) \in {";", ","} THEN <<cur>> \o SplitTypes(raw_type, i + 1, "")
    ELSE SplitTypes(raw_type, i + 1, cur \o Ch(raw_type, i))

\* normalize_types without the lower-casing of the tokens
normalize_types_keeping_case(line, name) ==
    LET parts == SplitOnce(Strip(line), ":")
        left == parts[1]
        after == From(left, Len(name) + 7)
        run == LStrip(after, TypeChars)
        raw_type == SubSeq(after, 1, Len(after) - Len(run))
        types == SelectSeq(SplitTypes(raw_type, 1, ""), LAMBDA t : t # "")
    IN  IF Len(parts) = 2 /\ raw_type # ""
        THEN name \o ";TYPE=" \o Join(types, ",") \o ":" \o Strip(parts[2]) \o "\n"
        ELSE line

\* lines 519-533 (name = "TEL") and 535-548 (name = "EMAIL")
normalize_types(line, name) ==
    LET parts == SplitOnce(Strip(line), ":")
        left == parts[1]
        after == From(left, Len(name) + 7)
        run == LStrip(after, TypeChars)
        raw_type == SubSeq(after, 1, Len(after) - Len(run))
        types == SelectSeq(SplitTypes(raw_type, 1, ""), LAMBDA t : t # "")
        lowered == [i \in 1..Len(types) |-> Lower(types[i])]
    IN  IF Len(parts) = 2 /\ raw_type # ""
        THEN name \o ";TYPE=" \o Join(lowered, ",") \o ":" \o Strip(parts[2]) \o "\n"
        ELSE line

\* lines 500-556: the line that is appended to other_lines for `line`
\* (the VERSION:2.1 line is not appended: see version_line)
upgraded_line(line) ==
    LET stripped == Strip(line)
        up == Upper(stripped)
    IN  IF up \in {"BEGIN:VCARD", "END:VCARD"} THEN stripped \o "\n"
        ELSE IF StartsWith(up, "FN:") THEN "FN:" \o escape_vcard_value(From(stripped, 4)) \o "\n"
        ELSE IF StartsWith(up, "N:")
        THEN LET parts == Split(From(stripped, 3), ";")
                 escaped_parts == [i \in 1..Len(parts) |-> escape_vcard_value(parts[i])]
             IN  "N:" \o Join(escaped_parts, ";") \o "\n"
        ELSE IF StartsWith(up, "TEL;TYPE=") THEN normalize_types(line, "TEL")
        ELSE IF StartsWith(up, "EMAIL;TYPE=") THEN normalize_types(line, "EMAIL")
        ELSE IF Contains(stripped, ":")
        THEN LET kv == SplitOnce(stripped, ":")
             IN  kv[1] \o ":" \o escape_vcard_value(kv[2]) \o "\n"
        ELSE line

IsLegacyVersion(line) == Upper(Strip(line)) = "VERSION:2.1"

\* lines 558-567: other_lines from index i on, the version line put after BEGIN:VCARD
RECURSIVE Reorder(_, _, _)
Reorder(other_lines, i, version_line) ==
    IF i > Len(other_lines) THEN <<>>
    ELSE (IF IsBegin(other_lines[i]) /\ Truthy(version_line)
          THEN <<other_lines[i], version_line.val>>
          ELSE <<other_lines[i]>>) \o Reorder(other_lines, i + 1, version_line)

upgradeVcfVersion_process_contact(contact_lines) ==
    LET kept == SelectSeq(contact_lines, LAMBDA l : ~IsLegacyVersion(l))
        other_lines == [i \in 1..Len(kept) |-> upgraded_line(kept[i])]
        version_line == IF Len(kept) < Len(contact_lines) THEN Some("VERSION:3.0\n") ELSE None
    IN  Reorder(other_lines, 1, version_line)

RECURSIVE UpgradeFlatten(_)
UpgradeFlatten(contacts) ==
    IF contacts = <<>> THEN <<>>
    ELSE upgradeVcfVersion_process_contact(Head(contacts)) \o <<"\n">>
             \o UpgradeFlatten(Tail(contacts))

upgradeVcfVersion(ls) == UpgradeFlatten(GroupContacts(ls))

----------------------------------------------------------------------------
(* sortContactsByName                                                      *)

\* lines 615-621
n_name_of(n_value) ==
    LET parts == Split(n_value, ";")
        given == IF Len(parts) > 1 THEN Strip(parts[2]) ELSE ""
        additional == IF Len(parts) > 2 THEN Strip(parts[3]) ELSE ""
        family == Strip(parts[1])
    IN  Join(SelectSeq(<<given, additional, family>>, LAMBDA part : part # ""), " ")

\* the loop of lines 605-621 from line i on
RECURSIVE ExtractScan(_, _, _, _)
ExtractScan(contact_lines, i, fn_name, n_name) ==
    IF i > Len(contact_lines) THEN [fn_name |-> fn_name, n_name |-> n_name]
    ELSE LET stripped == Strip(contact_lines[i])
             up == Upper(stripped)
         IN  IF StartsWith(up, "FN:")
             THEN ExtractScan(contact_lines, i + 1, Strip(From(stripped, 4)), n_name)
             ELSE IF StartsWith(up, "N:") /\ Strip(From(stripped, 3)) # ""
             THEN ExtractScan(contact_lines, i + 1, fn_name,
                              n_name_of(Strip(From(stripped, 3))))
             ELSE ExtractScan(contact_lines, i + 1, fn_name, n_name)

extract_contact_name(contact_lines) ==
    LET scan == ExtractScan(contact_lines, 1, "", "")
    IN  IF scan.fn_name # "" THEN Lower(scan.fn_name)
        ELSE IF scan.n_name # "" THEN Lower(scan.n_name)
        ELSE ""

\* list.sort(key=...) is stable: c goes after every contact whose key is not
\* greater than its own
RECURSIVE InsertByKey(_, _)
InsertByKey(sorted, c) ==
    IF sorted = <<>> THEN <<c>>
    ELSE IF StrLess(c[1], Head(sorted)[1]) THEN <<c>> \o sorted
    ELSE <<Head(sorted)>> \o InsertByKey(Tail(sorted), c)

RECURSIVE SortByKey(_, _)
SortByKey(contacts, i) ==
    IF i = 0 THEN <<>> ELSE InsertByKey(SortByKey(contacts, i - 1), contacts[i])

RECURSIVE SortFlatten(_)
SortFlatten(contacts) ==
    IF contacts = <<>> THEN <<>>
    ELSE Head(contacts)[2] \o <<"\n">> \o SortFlatten(Tail(contacts))

sortContactsByName(ls) ==
    LET groups == GroupContacts(ls)
        contacts == [i \in 1..Len(groups) |-> <<extract_contact_name(groups[i]), groups[i]>>]
    IN  SortFlatten(SortByKey(contacts, Len(contacts)))

----------------------------------------------------------------------------
(* Input files.                                                            *)

MaxFields == 2

MaxChunks == 2

MaxRaw == 3

\* the sequences over pool of length at most n
SeqsUpTo(pool, n) == UNION {[1..k -> pool] : k \in 0..n}

TelKeys ==
    {"TEL:", "TEL;CELL:", "TEL;MOBILE:", "TEL;Pref:", "TEL;TYPE=voice:", "TEL;TYPE=cell:",
     "TEL;TYPE=", "tel;type=", "TEL;TYPE=work:ext:"}

TelValues ==
    {"912345678", "+351 912 345 678", "912-345-678", "+351212345678", "312.345.678",
     "+44 123", "abc", "TEL;TYPE=9"}

TelLines == {k \o v \o "\n" : k \in TelKeys, v \in TelValues}

FieldPool ==
    {"FN:Ana\n", "fn: Bob \n", "N:Silva;Ana;;;\n", "N: Costa ; Rui ; M \n", "N:\n",
     "FN;CHARSET=UTF-8:Ana\n", "NOTE:hi\n", "EMAIL:a@b\n", "VERSION:2.1\n",
     "VERSION:3.0\n"}

ChunkPool ==
    {<<"BEGIN:VCARD\n", "FN:bob\n", "END:VCARD\n">>,
     <<"BEGIN:VCARD\n", "FN:Bob\n", "NOTE:hi\n", "END:VCARD\n", "\n">>,
     <<"BEGIN:VCARD\n", "N:Silva;Ana;;;\n", "END:VCARD\n">>,
     <<"begin:vcard\n", "NOTE:hi\n", "end:vcard\n">>,
     <<"END:VCARD\n">>,
     <<"BEGIN:VCARD\n", "FN:Zed\n">>,
     <<"\n", "BEGIN:VCARD\n", "FN:Cy\n", "END:VCARD\n", "\n", "\n">>}

RawPool ==
    {"NOTE:ab=\n", "cd=\n", "ef\n", "NOTE;CHARSET=UTF-8;ENCODING=QUOTED-PRINTABLE:a=C3=\n",
     "=A9b\n", "X;ENCODING=QUOTED-PRINTABLE:=FF\n"}

TelFiles ==
    {<<t>> : t \in TelLines}
        \cup {<<"BEGIN:VCARD\n", "FN:Ana\n", t, "END:VCARD\n">> : t \in TelLines}

RecordFiles ==
    {<<"BEGIN:VCARD\n">> \o body \o <<"END:VCARD\n">> : body \in SeqsUpTo(FieldPool, MaxFields)}

ChunkFiles == {Flatten(chunks) : chunks \in SeqsUpTo(ChunkPool, MaxChunks)}

RawFiles == SeqsUpTo(RawPool, MaxRaw)

MaxPhoto == 3

PhotoPool ==
    {"PHOTO;ENCODING=BASE64;JPEG:/9j/4A\n", " photo:x\n", " SkZJ\n", "\tAQEA\n", "\n",
     "FN:Ana\n", "PHOTOX:1\n"}

PhotoFiles == SeqsUpTo(PhotoPool, MaxPhoto)

\* files whose last line has no line break
OpenEndedFiles ==
    {<<"BEGIN:VCARD\n", "FN:Ana\n", "END:VCARD">>,
     <<"BEGIN:VCARD\n", "FN:Ana\n", "END:VCARD\n", "\n", "BEGIN:VCARD\n", "END:VCARD">>}

\* field lines whose values hold the characters upgradeVcfVersion escapes, and
\* typed telephone and email lines
ValuedLines ==
    {"FN:Silva, Ana\n", "NOTE:a;b\\c\n", "ORG:Acme\n", "TEL;TYPE=work:1,2\n",
     "TEL;TYPE=WORK;VOICE:912345678\n", "TEL;TYPE=home,Pref:9\n",
     "TEL;TYPE=CELL;PREF;CHARSET=UTF-8:9\n", "EMAIL;TYPE=INTERNET;HOME:a,b@c.pt\n",
     "EMAIL;TYPE=internet:a@b.pt\n", "N:Silva\\;Lopes;Ana;;;\n", "N:Silva, Jr;Ana;;;\n"}

ValuedFiles == {<<"BEGIN:VCARD\n", v, "END:VCARD\n">> : v \in ValuedLines}

Files ==
    TelFiles \cup RecordFiles \cup ChunkFiles \cup RawFiles \cup OpenEndedFiles
        \cup PhotoFiles \cup ValuedFiles

----------------------------------------------------------------------------
(* main: the passes in their fixed order.  pc is the stage main looks at   *)
(* next (1..8), 9 once every stage is behind it, 10 after it returned.     *)

FlagOf ==
    <<"readable", "remove_pictures", "remove_optional_fields", "format_numbers",
      "format_names", "auto_set_types", "update_version", "sort_by_name">>

SixFlags ==
    {"readable", "remove_pictures", "format_numbers", "format_names", "auto_set_types",
     "update_version"}

\* the command lines the model runs
ArgChoices ==
    {{}} \cup {{FlagOf[k]} : k \in 1..8} \cup {{"all"}, SixFlags}
        \cup {{"format_numbers", "auto_set_types"}, {"format_names", "sort_by_name"}}

Selected(k) == "all" \in args \/ FlagOf[k] \in args

\* stage k is the next selected stage
Runs(k) == pc <= k /\ Selected(k) /\ \A j \in pc..(k - 1) : ~Selected(j)

Apply(k, out) ==
    /\ lines' = out
    /\ prev' = lines
    /\ last' = k
    /\ pc' = k + 1
    /\ UNCHANGED <<args, written, ivars>>

\* the iterator before its loop (lines 96-99)
IterateStart ==
    /\ cleaned_lines = <<>>
    /\ contact = <<>>
    /\ contact_count = 0
    /\ deleted_count = 0
    /\ cursor = 1
    /\ user_input = ""
    /\ invalid = 0

Init ==
    /\ args \in ArgChoices
    /\ lines \in Files
    /\ prev = <<>>
    /\ last = 0
    /\ pc = 1
    /\ written = <<>>
    /\ IterateStart
    /\ ipc = "idle"

\* lines 44-46
NoOperation ==
    /\ pc = 1
    /\ args = {}
    /\ pc' = 10
    /\ UNCHANGED <<args, lines, prev, last, written, ivars>>

Readable == Runs(1) /\ Apply(1, convertToReadable(lines))

RemovePictures == Runs(2) /\ Apply(2, removeContactPictures(lines))

RemoveOptionalFields == Runs(3) /\ Apply(3, removeOptionalFields(lines))

FormatNumbers == Runs(4) /\ Apply(4, formatContactNumbers(lines))

FormatNames == Runs(5) /\ Apply(5, formatContactNames(lines))

AutoSetTypes == Runs(6) /\ Apply(6, autoSetContactTypes(lines))

UpdateVersion == Runs(7) /\ Apply(7, upgradeVcfVersion(lines))

SortByName == Runs(8) /\ Apply(8, sortContactsByName(lines))

\* the pass of stage k
Pass(k, ls) ==
    CASE k = 1 -> convertToReadable(ls)
      [] k = 2 -> removeContactPictures(ls)
      [] k = 3 -> removeOptionalFields(ls)
      [] k = 4 -> formatContactNumbers(ls)
      [] k = 5 -> formatContactNames(ls)
      [] k = 6 -> autoSetContactTypes(ls)
      [] k = 7 -> upgradeVcfVersion(ls)
      [] k = 8 -> sortContactsByName(ls)

\* lines 53-112: processed_lines once the stages k..8 that the flags select
\* have been applied to ls
RECURSIVE ProcessedFrom(_, _, _)
ProcessedFrom(k, flags, ls) ==
    IF k > 8 THEN ls
    ELSE ProcessedFrom(k + 1, flags,
                       IF "all" \in flags \/ FlagOf[k] \in flags THEN Pass(k, ls) ELSE ls)

\* lines 114-116
WriteOutput ==
    /\ pc <= 9
    /\ args # {}
    /\ \A j \in pc..8 : ~Selected(j)
    /\ written' = lines
    /\ pc' = 10
    /\ UNCHANGED <<args, lines, prev, last, ivars>>

Next ==
    \/ NoOperation
    \/ Readable
    \/ RemovePictures
    \/ RemoveOptionalFields
    \/ FormatNumbers
    \/ FormatNames
    \/ AutoSetTypes
    \/ UpdateVersion
    \/ SortByName
    \/ WriteOutput

Spec == Init /\ [][Next]_vars

----------------------------------------------------------------------------
(* iterateAndDeleteContacts (src/contact-list-delete-iterator.py): the loop *)
(* over the lines and, at each END:VCARD, the loop that asks for a decision *)

\* lines 47-84
extractContactName(contact_lines) ==
    LET scan == ExtractScan(contact_lines, 1, "", "")
    IN  IF scan.fn_name # "" THEN scan.fn_name
        ELSE IF scan.n_name # "" THEN scan.n_name
        ELSE "Unknown Contact"

\* the prompt of line 118: the sequence number and the name it shows
Prompt == <<contact_count, extractContactName(contact)>>

MaxInvalid == 2

\* what the decision source may return
Tokens == {"", "n", " N ", "Y", " y\n", "maybe", "yes"}

IterateFiles == ChunkFiles \cup {f \in RecordFiles : Len(f) <= 3} \cup OpenEndedFiles

IterateInit ==
    /\ args = {}
    /\ lines \in IterateFiles
    /\ prev = <<>>
    /\ last = 0
    /\ pc = 10
    /\ written = <<>>
    /\ IterateStart
    /\ ipc = "loop"

InLoop == ipc = "loop" /\ cursor <= Len(lines)

\* lines 107-108
BeginLine ==
    /\ InLoop
    /\ IsBegin(lines[cursor])
    /\ contact' = <<lines[cursor]>>
    /\ cursor' = cursor + 1
    /\ UNCHANGED <<args, lines, prev, last, pc, written, cleaned_lines, contact_count,
                   deleted_count, user_input, invalid, ipc>>

\* lines 109-114: the record is closed and the decision loop entered
EndLine ==
    /\ InLoop
    /\ ~IsBegin(lines[cursor])
    /\ IsEnd(lines[cursor])
    /\ contact' = Append(contact, lines[cursor])
    /\ contact_count' = contact_count + 1
    /\ ipc' = "ask"
    /\ UNCHANGED <<args, lines, prev, last, pc, written, cleaned_lines, deleted_count,
                   cursor, user_input, invalid>>

\* lines 135-136
OtherLine ==
    /\ InLoop
    /\ ~IsBegin(lines[cursor])
    /\ ~IsEnd(lines[cursor])
    /\ contact' = Append(contact, lines[cursor])
    /\ cursor' = cursor + 1
    /\ UNCHANGED <<args, lines, prev, last, pc, written, cleaned_lines, contact_count,
                   deleted_count, user_input, invalid, ipc>>

\* line 118: input(...).strip().upper()
Answer(token) == Upper(Strip(token))

\* lines 120-125 and 134
Keep ==
    /\ ipc = "ask"
    /\ \E token \in Tokens :
           /\ Answer(token) \in {"", "N"}
           /\ user_input' = Answer(token)
    /\ cleaned_lines' = cleaned_lines \o contact \o <<"\n">>
    /\ contact' = <<>>
    /\ cursor' = cursor + 1
    /\ ipc' = "loop"
    /\ UNCHANGED <<args, lines, prev, last, pc, written, contact_count, deleted_count,
                   invalid>>

\* Delete, the record being appended to the output all the same
DeleteAppending ==
    /\ ipc = "ask"
    /\ \E token \in Tokens :
           /\ Answer(token) = "Y"
           /\ user_input' = Answer(token)
    /\ deleted_count' = deleted_count + 1
    /\ cleaned_lines' = cleaned_lines \o contact \o <<"\n">>
    /\ contact' = <<>>
    /\ cursor' = cursor + 1
    /\ ipc' = "loop"
    /\ UNCHANGED <<args, lines, prev, last, pc, written, contact_count, invalid>>

\* lines 126-130 and 134
Delete ==
    /\ ipc = "ask"
    /\ \E token \in Tokens :
           /\ Answer(token) = "Y"
           /\ user_input' = Answer(token)
    /\ deleted_count' = deleted_count + 1
    /\ contact' = <<>>
    /\ cursor' = cursor + 1
    /\ ipc' = "loop"
    /\ UNCHANGED <<args, lines, prev, last, pc, written, cleaned_lines, contact_count,
                   invalid>>

\* lines 131-132: the answer is rejected and the question asked again
Reprompt ==
    /\ ipc = "ask"
    /\ invalid < MaxInvalid
    /\ \E token \in Tokens :
           /\ Answer(token) \notin {"", "N", "Y"}
           /\ user_input' = Answer(token)
    /\ invalid' = invalid + 1
    /\ UNCHANGED <<args, lines, prev, last, pc, written, cleaned_lines, contact,
                   contact_count, deleted_count, cursor, ipc>>

\* lines 138-145 and main's lines 39-43
Finish ==
    /\ ipc = "loop"
    /\ cursor > Len(lines)
    /\ written' = cleaned_lines
    /\ ipc' = "done"
    /\ UNCHANGED <<args, lines, prev, last, pc, cleaned_lines, contact, contact_count,
                   deleted_count, cursor, user_input, invalid>>

IterateNext ==
    \/ BeginLine
    \/ EndLine
    \/ OtherLine
    \/ Keep
    \/ Delete
    \/ Reprompt
    \/ Finish

Iterate == IterateInit /\ [][IterateNext]_vars

\* either program is run
Tools == (Init \/ IterateInit) /\ [][Next \/ IterateNext]_vars

----------------------------------------------------------------------------
(* Properties.  last = k says that stage k was the last pass applied:      *)
(* prev is what it read and lines what it returned.                        *)

\* the field name of a line: the text before the first ';' or ':', in upper case
FieldKey(line) ==
    LET s == Upper(Strip(line))
        I == {i \in 1..Len(s) : Ch(s, i) \in {";", ":"}}
    IN  IF I = {} THEN s ELSE SubSeq(s, 1, Min(I) - 1)

\* C1: after removeOptionalFields every line emitted inside a record is a
\* BEGIN:VCARD or END:VCARD marker or a field whose key is VERSION, FN, N or TEL
\* (the blank lines are the separators the pass puts between records).
C1_OnlyMandatoryKeys ==
    last = 3 =>
        \A i \in 1..Len(lines) :
            \/ Strip(lines[i]) = ""
            \/ IsBegin(lines[i])
            \/ IsEnd(lines[i])
            \/ FieldKey(lines[i]) \in {"VERSION", "FN", "N", "TEL"}

IsTelLine(line) == FieldKey(line) = "TEL"

\* the value of a field line: the text after the first ':'
FieldValue(line) ==
    LET parts == SplitOnce(Strip(line), ":")
    IN  IF Len(parts) = 2 THEN parts[2] ELSE ""

NumberSeparators == {" ", "-", ".", "/"}

\* a value once the +351 country prefix and its following separators are removed
BareNumber(value) ==
    IF StartsWith(value, "+351") THEN LStrip(From(value, 5), NumberSeparators) ELSE value

IsSeparatedDigits(v) == \A i \in 1..Len(v) : Ch(v, i) \in Digits \cup NumberSeparators

Grouped(d) == SubSeq(d, 1, 3) \o " " \o SubSeq(d, 4, 6) \o " " \o SubSeq(d, 7, 9)

\* C2: after formatContactNumbers every telephone line whose value, the +351
\* prefix removed, holds exactly 9 digits (contiguous or separated by space,
\* dash, dot or slash) carries those digits, in order, as one ddd ddd ddd group.
C2_NineDigitsGrouped ==
    last = 4 =>
        \A i \in 1..Len(prev) :
            LET v == BareNumber(FieldValue(prev[i]))
            IN  (IsTelLine(prev[i]) /\ IsSeparatedDigits(v) /\ Len(DigitsOf(v)) = 9)
                    => /\ Contains(lines[i], Grouped(DigitsOf(v)))
                       /\ DigitsOf(lines[i]) = DigitsOf(v)

\* the key text of a line, up to and including its first ':'
KeyText(line) == SubSeq(Strip(line), 1, IndexOf(Strip(line), ":"))

\* C3: formatContactNumbers keeps the key of a line that already has the shape
\* TEL;TYPE=<type>:<value>: the output line begins with the same TEL;TYPE=<type>:
C3_KeyKept ==
    last = 4 =>
        \A i \in 1..Len(prev) :
            MatchesTelType(Strip(prev[i])) => StartsWith(lines[i], KeyText(prev[i]))

\* the type the fixed table gives a type word, looked up case-insensitively
TableType(word) ==
    IF Upper(word) \in DOMAIN type_mapping THEN type_mapping[Upper(word)] ELSE Lower(word)

\* C4: standardize_tel_format rewrites TEL;<WORD>:<value> to TEL;TYPE=<t>:<value>,
\* <t> being the table's type for <WORD> (MOBILE and CELL give cell) or, for an
\* unrecognized word, the word in lower case; TEL:<value> becomes
\* TEL;TYPE=voice:<value>.
C4_Standardized ==
    last = 4 =>
        \A i \in 1..Len(prev) :
            LET s == Strip(prev[i])
                k == IndexOf(From(s, 5), ":")
            IN  /\ (MatchesTelWord(s) /\ ~MatchesTelType(s))
                       => standardize_tel_format(prev[i])
                              = "TEL;TYPE=" \o TableType(Strip(SubSeq(s, 5, 3 + k))) \o ":"
                                    \o Strip(From(s, 5 + k)) \o "\n"
                /\ StartsWith(Upper(s), "TEL:")
                       => standardize_tel_format(prev[i])
                              = "TEL;TYPE=voice:" \o Strip(From(s, 5)) \o "\n"

\* the category of a number: spaces and dashes removed, a leading +351 or 351
\* stripped, then 2 gives HOME, 9 gives CELL, a leading + gives CELL
Category(x) ==
    LET c == Replace(Replace(x, " ", ""), "-", "")
        n == IF StartsWith(c, "+351") THEN From(c, 5)
             ELSE IF StartsWith(c, "351") THEN From(c, 4)
             ELSE c
    IN  CASE StartsWith(n, "2") -> "HOME"
          [] StartsWith(n, "9") -> "CELL"
          [] StartsWith(n, "+") -> "CELL"
          [] OTHER -> "VOICE"

\* C5: every line that after phase 1 has the shape TEL;TYPE=<x>, <x> holding a
\* digit, is output by autoSetContactTypes as TEL;TYPE=<C>:<x>, <x> unchanged and
\* <C> the category of <x>.  The shape is read literally, in upper case.
C5_TypeInferred ==
    last = 6 =>
        \A i \in 1..Len(prev) :
            LET s == Strip(remove_types_from_line(prev[i]))
                x == From(s, 10)
            IN  (StartsWith(s, "TEL;TYPE=") /\ DigitsOf(x) # "")
                    => lines[i] = "TEL;TYPE=" \o Category(x) \o ":" \o x \o "\n"

\* C6: autoSetContactTypes applied to its own output returns that output.
C6_Idempotent == last = 6 => autoSetContactTypes(lines) = lines

\* the lines of a record whose field name is key
FieldsOf(record, key) == SelectSeq(record, LAMBDA line : FieldKey(line) = key)

\* the name synthesized from the value family;given;additional;... of an N
\* field: given, additional, family, the empty ones skipped, joined by spaces
SynthesizedName(value) ==
    LET parts == Split(value, ";")
        part(k) == IF Len(parts) >= k THEN Strip(parts[k]) ELSE ""
    IN  Join(SelectSeq(<<part(2), part(3), part(1)>>, LAMBDA c : c # ""), " ")

\* C7: after formatContactNames every output record holds at most one FN line:
\* the first FN line of the input record if it has one; otherwise, if the record
\* has an N field with a value, the FN synthesized from it; a record with
\* neither gets no FN.  (An N field with an empty value counts as no N.)
C7_OneFormattedName ==
    last = 5 =>
        LET in == GroupContacts(prev)
            out == GroupContacts(lines)
        IN  /\ Len(out) = Len(in)
            /\ \A r \in 1..Len(in) :
                   LET fnIn == FieldsOf(in[r], "FN")
                       nIn == SelectSeq(FieldsOf(in[r], "N"),
                                        LAMBDA line : Strip(FieldValue(line)) # "")
                       fnOut == FieldsOf(out[r], "FN")
                   IN  /\ Len(fnOut) <= 1
                       /\ fnIn # <<>> => fnOut = <<Strip(fnIn[1]) \o "\n">>
                       /\ (fnIn = <<>> /\ nIn # <<>>)
                              => \E k \in 1..Len(nIn) :
                                     fnOut = <<"FN:" \o SynthesizedName(FieldValue(nIn[k]))
                                                 \o "\n">>
                       /\ (fnIn = <<>> /\ nIn = <<>>) => fnOut = <<>>

IsMarker(line) == IsBegin(line) \/ IsEnd(line)

\* the complete records of a file: a begin marker, the lines up to the next
\* marker, and that marker being an end marker
RecordStarts(ls) ==
    {b \in 1..Len(ls) :
        /\ IsBegin(ls[b])
        /\ \E e \in (b + 1)..Len(ls) :
               /\ IsEnd(ls[e])
               /\ \A k \in (b + 1)..(e - 1) : ~IsMarker(ls[k])}

RecordAt(ls, b) ==
    SubSeq(ls, b, Min({e \in (b + 1)..Len(ls) : IsEnd(ls[e])}))

\* the k-th smallest element of a set of numbers
Nth(S, k) == CHOOSE x \in S : Cardinality({y \in S : y <= x}) = k

CompleteRecords(ls) ==
    [k \in 1..Cardinality(RecordStarts(ls)) |-> RecordAt(ls, Nth(RecordStarts(ls), k))]

\* C8: sortContactsByName outputs exactly the complete records of its input,
\* each unchanged and followed by its blank separator, none lost or duplicated,
\* in non-decreasing order of the lower-cased name key, records with equal keys
\* in their input order.
C8_StableSortOfRecords ==
    last = 8 =>
        LET records == CompleteRecords(prev)
            n == Len(records)
            key == [k \in 1..n |-> extract_contact_name(records[k])]
        IN  \E p \in Permutations(1..n) :
                /\ lines = Flatten([k \in 1..n |-> Append(records[p[k]], "\n")])
                /\ \A i, j \in 1..n :
                       i < j => \/ StrLess(key[p[i]], key[p[j]])
                                \/ (key[p[i]] = key[p[j]] /\ p[i] < p[j])

\* the Display Name formatContactNames derives for a record: the value of the
\* FN line of the canonicalized record, the empty string when it has none
DisplayName(record) ==
    LET fn == SelectSeq(formatContactNames_process_contact(record),
                        LAMBDA line : StartsWith(Upper(Strip(line)), "FN:"))
    IN  IF fn = <<>> THEN "" ELSE Strip(From(Strip(fn[1]), 4))

\* C9: for every record the sort key of sortContactsByName is the lower-cased
\* Display Name that formatContactNames derives for the same record.
C9_KeyIsDisplayName ==
    last = 8 =>
        \A r \in 1..Len(GroupContacts(prev)) :
            extract_contact_name(GroupContacts(prev)[r])
                = Lower(DisplayName(GroupContacts(prev)[r]))

LineBreaks == {"\r", "\n"}

IsContinued(line) == EndsWith(RStrip(line, LineBreaks), "=")

\* the content of the lines b..k of a file, the trailing '=' of the lines
\* before k removed
RECURSIVE JoinedRun(_, _, _)
JoinedRun(ls, b, k) ==
    IF b = k THEN RStrip(ls[k], LineBreaks)
    ELSE SubSeq(RStrip(ls[b], LineBreaks), 1, Len(RStrip(ls[b], LineBreaks)) - 1)
             \o JoinedRun(ls, b + 1, k)

\* C10: for every run L_b..L_k (b < k) of input lines of which all but the last
\* end with '=', convertToReadable outputs one line, whose content is the lines
\* of the run joined without their trailing '=' (decoded, when the joined line
\* is a quoted-printable one that decodes), with or without the
\* ENCODING=QUOTED-PRINTABLE parameter.
C10_RunJoined ==
    last = 1 =>
        LET closing == {i \in 1..Len(prev) : ~IsContinued(prev[i])}
        IN  /\ Len(lines) = Cardinality(closing)
            /\ \A b, k \in 1..Len(prev) :
                   (/\ b < k
                    /\ k \in closing
                    /\ \A i \in b..(k - 1) : IsContinued(prev[i])
                    /\ (b > 1 => ~IsContinued(prev[b - 1])))
                       => LET joined == JoinedRun(prev, b, k)
                              j == Cardinality({i \in closing : i <= k})
                          IN  RStrip(lines[j], LineBreaks)
                                  = RStrip(ReadableLine(joined \o "\n", joined), LineBreaks)

\* lines b..k of a file are a whole logical line: all but the last end with
\* '=', the last does not, and the line before b, if any, does not either
LogicalLine(ls, b, k) ==
    /\ b <= k
    /\ ~IsContinued(ls[k])
    /\ \A i \in b..(k - 1) : IsContinued(ls[i])
    /\ (b > 1 => ~IsContinued(ls[b - 1]))

\* a logical line flagged ENCODING=QUOTED-PRINTABLE whose value does not decode
DecodeFails(logical) ==
    /\ Contains(logical, "ENCODING=QUOTED-PRINTABLE")
    /\ Len(SplitOnce(logical, ":")) = 2
    /\ ~Utf8Decode(a2b_qp(SplitOnce(logical, ":")[2])).ok

\* C11: when the value of a reassembled quoted-printable line does not decode,
\* convertToReadable emits the whole undecoded logical line (every soft-wrapped
\* part, the key with its parameters) and processes the lines that follow as if
\* the input began with them.
C11_DecodeFailureKeepsLine ==
    last = 1 =>
        \A b, k \in 1..Len(prev) :
            (LogicalLine(prev, b, k) /\ DecodeFails(JoinedRun(prev, b, k)))
                => LET j == Cardinality({i \in 1..k : ~IsContinued(prev[i])})
                   IN  /\ j <= Len(lines)
                       /\ RStrip(lines[j], LineBreaks) = JoinedRun(prev, b, k)
                       /\ SubSeq(lines, j + 1, Len(lines))
                              = convertToReadable(SubSeq(prev, k + 1, Len(prev)))

\* the record-scoped pass of stage k
RecordPass(k, ls) ==
    CASE k = 3 -> removeOptionalFields(ls)
      [] k = 5 -> formatContactNames(ls)
      [] k = 7 -> upgradeVcfVersion(ls)
      [] OTHER -> sortContactsByName(ls)

\* C12: in the record-scoped passes only the complete records of the input (a
\* begin marker up to its first following end marker, no begin marker between)
\* reach the output: unterminated records, lines outside records and stray end
\* markers contribute nothing, so the output is that of the pass on the
\* complete records alone.
C12_MalformedDiscarded ==
    last \in {3, 5, 7, 8} => lines = RecordPass(last, Flatten(CompleteRecords(prev)))

\* a file made of complete records separated only by blank lines
OnlyRecordsAndBlanks(ls) ==
    \A i \in 1..Len(ls) :
        \/ Strip(ls[i]) = ""
        \/ \E b \in RecordStarts(ls) : b <= i /\ i < b + Len(RecordAt(ls, b))

\* the records of a file are in non-decreasing order of their sort keys
InKeyOrder(ls) ==
    \A i, j \in 1..Len(CompleteRecords(ls)) :
        i < j => ~StrLess(extract_contact_name(CompleteRecords(ls)[j]),
                          extract_contact_name(CompleteRecords(ls)[i]))

\* every record of a file, unchanged and in order, each followed by one blank line
RecordsReflattened(ls) ==
    Flatten([k \in 1..Len(CompleteRecords(ls)) |-> Append(CompleteRecords(ls)[k], "\n")])

\* C13: on a file of complete records separated only by blank lines,
\* sortContactsByName on records already in key order, and
\* iterateAndDeleteContacts when every record is kept, output every record
\* unchanged and in order, each followed by exactly one blank line, and nothing
\* else.
C13_RoundTrip ==
    /\ (last = 8 /\ OnlyRecordsAndBlanks(prev) /\ InKeyOrder(prev))
           => lines = RecordsReflattened(prev)
    /\ (ipc = "done" /\ deleted_count = 0 /\ OnlyRecordsAndBlanks(lines))
           => written = RecordsReflattened(lines)

\* two records, all kept, and more blank lines in the input than in the output
C13_Witness ==
    /\ ipc = "done"
    /\ deleted_count = 0
    /\ OnlyRecordsAndBlanks(lines)
    /\ Len(CompleteRecords(lines)) = 2
    /\ \E i \in 1..(Len(lines) - 1) : Strip(lines[i]) = "" /\ Strip(lines[i + 1]) = ""
    /\ written = RecordsReflattened(lines)
    /\ Len(written) < Len(lines)

\* a line whose trimmed content matches PHOTO[;params]:
IsPhotoLine(line) == MatchesPhoto(Strip(line))

\* a line that continues a photo block: indented, or blank
IsPhotoData(line) == StartsWith(line, " ") \/ StartsWith(line, "\t") \/ Strip(line) = ""

\* line i of a file is a PHOTO line or lies in the block that follows one
InPhotoBlock(ls, i) ==
    \/ IsPhotoLine(ls[i])
    \/ \E p \in 1..(i - 1) :
           /\ IsPhotoLine(ls[p])
           /\ \A k \in (p + 1)..i : IsPhotoData(ls[k])

\* C14: removeContactPictures drops every PHOTO line together with the
\* indented or blank lines that immediately follow it, and outputs every other
\* line unchanged and in input order; the output holds no PHOTO line.
C14_PhotoBlocksDropped ==
    last = 2 =>
        LET kept == {i \in 1..Len(prev) : ~InPhotoBlock(prev, i)}
        IN  /\ lines = [k \in 1..Cardinality(kept) |-> prev[Nth(kept, k)]]
            /\ \A j \in 1..Len(lines) : ~IsPhotoLine(lines[j])

\* a PHOTO line and the data line after it are dropped, and the line that
\* ends the block is kept
C14_Witness ==
    /\ last = 2
    /\ \E i \in 1..(Len(prev) - 2) :
           /\ IsPhotoLine(prev[i])
           /\ IsPhotoData(prev[i + 1])
           /\ ~InPhotoBlock(prev, i + 2)
    /\ Len(lines) = 1
    /\ lines[1] = prev[Len(prev)]

\* the lines of a record that read text once trimmed and put in upper case
LinesReading(record, text) == SelectSeq(record, LAMBDA line : Upper(Strip(line)) = text)

\* C15: upgradeVcfVersion, per record: a record that holds a VERSION:2.1 line is
\* output with no VERSION:2.1 line and exactly one VERSION:3.0 line, which
\* directly follows the begin marker; a record with no revision field is output
\* with none.
C15_RevisionUpgraded ==
    last = 7 =>
        LET in == GroupContacts(prev)
            out == GroupContacts(lines)
        IN  /\ Len(out) = Len(in)
            /\ \A r \in 1..Len(in) :
                   IsBegin(in[r][1]) =>
                       /\ LinesReading(in[r], "VERSION:2.1") # <<>>
                              => /\ LinesReading(out[r], "VERSION:2.1") = <<>>
                                 /\ Len(LinesReading(out[r], "VERSION:3.0")) = 1
                                 /\ IsBegin(out[r][1])
                                 /\ Upper(Strip(out[r][2])) = "VERSION:3.0"
                       /\ FieldsOf(in[r], "VERSION") = <<>>
                              => FieldsOf(out[r], "VERSION") = <<>>

\* the escape of a value as the vCard 3.0 rules give it, character by character
RECURSIVE Escaped(_)
Escaped(value) ==
    IF value = "" THEN ""
    ELSE (CASE Ch(value, 1) = "\\" -> "\\\\"
            [] Ch(value, 1) = ";" -> "\\;"
            [] Ch(value, 1) = "," -> "\\,"
            [] Ch(value, 1) = "\n" -> "\\n"
            [] OTHER -> Ch(value, 1)) \o Escaped(From(value, 2))

\* the field lines of a record, markers and revision fields left out
ValueLines(record) ==
    SelectSeq(record, LAMBDA line : ~IsMarker(line) /\ FieldKey(line) # "VERSION")

\* the key of a field line: the text before its first colon
KeyOf(line) == SplitOnce(Strip(line), ":")[1]

IsTypedLine(line) ==
    \/ StartsWith(Upper(Strip(line)), "TEL;TYPE=")
    \/ StartsWith(Upper(Strip(line)), "EMAIL;TYPE=")

\* C16: upgradeVcfVersion escapes the value of every value-bearing field line
\* of a record, telephone and email lines included: the output line has the
\* input value with backslash, ';', ',' and newline escaped, under the same key
\* (typed telephone and email keys are rewritten, claim C18; the components of
\* an N value that holds a backslash are claim C17).
C16_ValuesEscaped ==
    last = 7 =>
        LET in == GroupContacts(prev)
            out == GroupContacts(lines)
        IN  \A r \in 1..Len(in) :
                IsBegin(in[r][1]) =>
                    LET a == ValueLines(in[r])
                        b == ValueLines(out[r])
                    IN  /\ Len(b) = Len(a)
                        /\ \A i \in 1..Len(a) :
                               (/\ Contains(Strip(a[i]), ":")
                                /\ Upper(KeyOf(a[i])) = "N" => ~Contains(a[i], "\\"))
                                   => /\ IsTypedLine(a[i]) \/ KeyOf(b[i]) = KeyOf(a[i])
                                      /\ FieldValue(b[i]) =
                                             IF Upper(KeyOf(a[i])) = "N"
                                             THEN Replace(Escaped(FieldValue(a[i])), "\\;", ";")
                                             ELSE Escaped(FieldValue(a[i]))

\* the indices of the semicolons of a value that no backslash precedes
Boundaries(value) ==
    {i \in 1..Len(value) : Ch(value, i) = ";" /\ (i = 1 \/ Ch(value, i - 1) # "\\")}

\* the components of a structured value: the texts between the semicolons that
\* no backslash precedes
Components(value) ==
    LET cut(k) == IF k = 0 THEN 0
                  ELSE IF k > Cardinality(Boundaries(value)) THEN Len(value) + 1
                  ELSE Nth(Boundaries(value), k)
    IN  [k \in 1..(Cardinality(Boundaries(value)) + 1) |->
            SubSeq(value, cut(k - 1) + 1, cut(k) - 1)]

\* C17: upgradeVcfVersion escapes an N field component by component, the
\* components being delimited by the semicolons that no backslash precedes: the
\* output N value is the escapes of the input components joined by ';', and it
\* has as many components as the input value.
C17_ComponentsEscaped ==
    last = 7 =>
        LET in == GroupContacts(prev)
            out == GroupContacts(lines)
        IN  \A r \in 1..Len(in) :
                IsBegin(in[r][1]) =>
                    LET a == ValueLines(in[r])
                        b == ValueLines(out[r])
                    IN  /\ Len(b) = Len(a)
                        /\ \A i \in 1..Len(a) :
                               StartsWith(Upper(Strip(a[i])), "N:") =>
                                   LET parts == Components(FieldValue(a[i]))
                                   IN  /\ FieldValue(b[i]) =
                                              Join([k \in 1..Len(parts) |-> Escaped(parts[k])], ";")
                                       /\ Len(Components(FieldValue(b[i]))) = Len(parts)

\* the text of a typed telephone or email key after its TYPE=
TypeText(line) == From(KeyOf(line), IndexOf(Upper(KeyOf(line)), ";TYPE=") + 6)

\* the type tokens of a typed key: the non-empty texts between its ';' and ','
TypeTokens(line) ==
    LET text == TypeText(line)
        seps == {0, Len(text) + 1} \cup {i \in 1..Len(text) : Ch(text, i) \in {";", ","}}
        runs == [k \in 1..(Cardinality(seps) - 1) |->
                    SubSeq(text, Nth(seps, k) + 1, Nth(seps, k + 1) - 1)]
    IN  SelectSeq(runs, LAMBDA t : t # "")

\* a type token is a word of letters, digits and hyphens
IsTypeToken(t) ==
    t # "" /\ \A i \in 1..Len(t) : Ch(t, i) \in LowerSet \cup UpperSet \cup Digits \cup {"-"}

\* the shape TEL;TYPE=<tokens>:<value> or EMAIL;TYPE=<tokens>:<value> with
\* several type tokens between TYPE= and the colon
HasSeveralTypes(line) ==
    /\ IsTypedLine(line)
    /\ Contains(Strip(line), ":")
    /\ Len(TypeTokens(line)) > 1
    /\ \A k \in 1..Len(TypeTokens(line)) : IsTypeToken(TypeTokens(line)[k])

C19_AllIsSixFlags ==
    /\ (args = {"all"} /\ last # 0) => FlagOf[last] \in SixFlags
    /\ (args = {"all"} /\ pc = 1)
           => ProcessedFrom(1, {"all"}, lines) = ProcessedFrom(1, SixFlags, lines)

\* the complete records of the input that end at line e
RecordsEndingAt(e) ==
    {b \in RecordStarts(lines) : b + Len(RecordAt(lines, b)) - 1 = e}

\* the decision source is being asked about a complete record
AskedAboutRecord == ipc = "ask" /\ RecordsEndingAt(cursor) # {}

AskedRecord == RecordAt(lines, CHOOSE b \in RecordsEndingAt(cursor) : TRUE)

EndMarkers(ls) == {i \in 1..Len(ls) : IsEnd(ls[i])}

\* C20: iterateAndDeleteContacts, while it asks about a complete record: a
\* token other than Y, N or empty (trimmed, in upper case) changes neither the
\* output nor the counters and the same question, with the same sequence
\* number, is asked again; N or empty appends the record and one blank line to
\* the output, Y appends nothing and counts a deletion, and only then the pass
\* moves to the next line.  At the end the records written are the records
\* processed less the records deleted.
C20_Decision ==
    /\ [][AskedAboutRecord =>
            /\ user_input' \notin {"", "N", "Y"}
                   => /\ ipc' = "ask" /\ cursor' = cursor /\ contact' = contact
                      /\ cleaned_lines' = cleaned_lines
                      /\ contact_count' = contact_count
                      /\ deleted_count' = deleted_count
            /\ user_input' \in {"", "N"}
                   => /\ ipc' = "loop" /\ cursor' = cursor + 1
                      /\ cleaned_lines' = cleaned_lines \o AskedRecord \o <<"\n">>
                      /\ contact_count' = contact_count
                      /\ deleted_count' = deleted_count
            /\ user_input' = "Y"
                   => /\ ipc' = "loop" /\ cursor' = cursor + 1
                      /\ cleaned_lines' = cleaned_lines
                      /\ contact_count' = contact_count
                      /\ deleted_count' = deleted_count + 1]_vars
    /\ [](AskedAboutRecord => Prompt = <<Cardinality(EndMarkers(SubSeq(lines, 1, cursor))),
                                         extractContactName(AskedRecord)>>)
    /\ [](ipc = "done" =>
              /\ written = cleaned_lines
              /\ Cardinality(EndMarkers(written)) = contact_count - deleted_count)

\* two complete records were decided, one kept and one deleted, after an
\* answer that was rejected
C20_Witness ==
    /\ ipc = "done"
    /\ OnlyRecordsAndBlanks(lines)
    /\ invalid > 0
    /\ deleted_count = 1
    /\ contact_count = 2
    /\ Len(CompleteRecords(written)) = 1

\* the type words of the fixed table
TypeWords ==
    {"CELL", "MOBILE", "WORK", "HOME", "VOICE", "FAX", "PAGER", "VIDEO", "TEXT", "TEXTPHONE"}

\* the keys TEL:, TEL;<WORD>: and TEL;TYPE=<word>: of a type word of the table
TableKeys ==
    {"TEL:"} \cup {"TEL;" \o w \o ":" : w \in TypeWords}
             \cup {"TEL;TYPE=" \o w \o ":" : w \in TypeWords}
             \cup {"TEL;TYPE=" \o Lower(w) \o ":" : w \in TypeWords}

\* 9 contiguous digits, optionally preceded by +351
IsNineDigits(v) ==
    LET d == IF StartsWith(v, "+351") THEN From(v, 5) ELSE v
    IN  Len(d) = 9 /\ \A i \in 1..9 : Ch(d, i) \in Digits

\* C21: formatContactNumbers and then autoSetContactTypes turn a line TEL:<v>,
\* TEL;<WORD>:<v> or TEL;TYPE=<word>:<v>, <WORD> a type word of the table and <v>
\* 9 contiguous digits optionally preceded by +351, into TEL;TYPE=<C>:ddd ddd ddd:
\* the 9 digits in order, <C> being CELL for a first digit 9, HOME for 2 and
\* VOICE otherwise.
C21_FormattedAndTyped ==
    (pc = 1 /\ args = {"format_numbers", "auto_set_types"}) =>
        \A i \in 1..Len(lines) :
            LET s == Strip(lines[i])
                v == FieldValue(lines[i])
                d == DigitsOf(IF StartsWith(v, "+351") THEN From(v, 5) ELSE v)
                C == CASE Ch(d, 1) = "9" -> "CELL" [] Ch(d, 1) = "2" -> "HOME"
                       [] OTHER -> "VOICE"
            IN  (Contains(s, ":") /\ (KeyOf(lines[i]) \o ":") \in TableKeys /\ IsNineDigits(v))
                    => ProcessedFrom(1, args, lines)[i]
                           = "TEL;TYPE=" \o C \o ":" \o Grouped(d) \o "\n"

\* C22: upgradeVcfVersion is idempotent: applied to its own output it returns
\* that output unchanged (no value is escaped a second time).
C22_UpgradeIdempotent ==
    last = 7 => upgradeVcfVersion(lines) = lines

====
